---- MODULE Spec2Model ----
(***************************************************************************)
(* Cold Calling Assistant (src/app.py): a Streamlit script.  Every user    *)
(* interaction (a file dropped on the uploader, a play button, the form's  *)
(* submit button, a download button) re-runs the whole script top to       *)
(* bottom against st.session_state.  One action of this model is one such  *)
(* interaction together with the complete script run it triggers.          *)
(*                                                                         *)
(* Representation                                                          *)
(*   - a file name is the sequence of its characters, so that the sort key *)
(*     can look at every character as the code does;                       *)
(*   - Python's None is the empty sequence <<>>, a present value x is <<x>>*)
(*     (None for a file name is the empty name <<>>);                      *)
(*   - an instant is a number of seconds since 2026-11-01 00:00:00 PDT,    *)
(*     the night daylight saving time ends in America/Los_Angeles;         *)
(*   - a float is the exact fraction [num, den] it approximates.           *)
(***************************************************************************)
EXTENDS Integers, Sequences, FiniteSets, TLC

\* ------------------------------------------------------------------ bounds
MaxCalls == 2
MaxFiles == 3

\* ---------------------------------------------------------------- inputs
Mp3(chars) == chars \o <<".", "m", "p", "3">>

IntroMp3 == Mp3(<<"i", "n", "t", "r", "o">>)
TwoMp3 == Mp3(<<"2">>)
TenMp3 == Mp3(<<"1", "0">>)
SevenMp3 == Mp3(<<"7">>)

\* Files the operator may drop on the uploader.  The uploader accepts the
\* extension .mp3; the MIME type is whatever the browser reports.
Files ==
    { [name |-> IntroMp3, type |-> "audio/mpeg"],
      [name |-> TwoMp3, type |-> "audio/mpeg"],
      [name |-> TenMp3, type |-> "audio/mpeg"],
      [name |-> SevenMp3, type |-> "audio/mp3"] }

FileNames == { f.name : f \in Files }

\* Readings of the host clock, datetime.now(pst), at a form submission.  The
\* host clock is a wall clock, not a monotonic one, so a later submission may
\* read an earlier instant.
\*      0  = 00:00:00 PDT      45 = 00:00:45 PDT
\*   4000  = 01:06:40 PDT (the hour that is repeated when DST ends)
\*  11325  = 02:08:45 PST
Instants == {0, 45, 4000, 11325}

BusinessNames == {"", "Acme"}
NotesTexts == {""}

\* Inputs of the session that mixes audio and logging.
SessionFiles == { f \in Files : f.name \in {IntroMp3, TwoMp3} \/ f.type # "audio/mpeg" }
SessionInstants == {0, 4000}
SessionReasons == {"N/A", "No answer"}

\* ------------------------------------------------------ program constants
ResultOptions == {"Interested", "Rejected"}
ReasonOptions == {"No answer", "Owner not there", "Not Interested", "N/A"}
ColumnConfig ==
    [timestamp |-> "Time", business |-> "Business", result |-> "Result",
     reason |-> "Reason", notes |-> "Notes"]
SentinelKey == 999
MaxLabelLen == 20
TruncatedLen == 17
CurrentDate == "2026-11-01"

\* pytz America/Los_Angeles on 2026-11-01: PDT until 02:00 PDT, then PST,
\* one hour behind.
DstEnd == 7200
DstShift == 3600

None == <<>>
Some(x) == <<x>>

VARIABLES
    audio_files,      \* st.session_state.audio_files: names in insertion order
    call_log,         \* st.session_state.call_log
    current_audio,    \* st.session_state.current_audio
    audio_states,     \* st.session_state.audio_states (never written)
    uploaded_files,   \* value of the file_uploader widget
    event,            \* the widget that triggered the latest script run
    left_buttons,     \* buttons drawn in the left column, top to bottom
    right_buttons,    \* buttons drawn in the right column, top to bottom
    played,           \* clip handed to audio_placeholder.audio in this run
    shown_df,         \* the DataFrame as built and shown by st.dataframe
    df,               \* the same DataFrame object after calculate_statistics
    stats,            \* value returned by calculate_statistics
    raised,           \* exception that ended the script run, if any
    csv_data,         \* data of the CSV download button
    report_text,      \* data of the TXT download button
    downloaded        \* payload the browser saved in this run

vars ==
    <<audio_files, call_log, current_audio, audio_states, uploaded_files,
      event, left_buttons, right_buttons, played, shown_df, df, stats,
      raised, csv_data, report_text, downloaded>>

\* ------------------------------------------------------------- sequences
Range(s) == { s[i] : i \in DOMAIN s }

Maximum(S) == CHOOSE x \in S : \A y \in S : y <= x
Minimum(S) == CHOOSE x \in S : \A y \in S : x <= y

\* ------------------------------------------------------------ audio files
\* d[k] = v on a Python dict: a new key goes last, an existing key keeps its
\* position.
DictSet(keys, k) == IF k \in Range(keys) THEN keys ELSE Append(keys, k)

RECURSIVE save_uploaded_files(_, _)
save_uploaded_files(files, uploads) ==
    IF uploads = <<>> THEN files
    ELSE save_uploaded_files(
             IF Head(uploads).type = "audio/mpeg"
                 THEN DictSet(files, Head(uploads).name)
                 ELSE files,
             Tail(uploads))

IsDigit(c) == c \in {"0", "1", "2", "3", "4", "5", "6", "7", "8", "9"}

DigitValue(c) ==
    CASE c = "0" -> 0 [] c = "1" -> 1 [] c = "2" -> 2 [] c = "3" -> 3
      [] c = "4" -> 4 [] c = "5" -> 5 [] c = "6" -> 6 [] c = "7" -> 7
      [] c = "8" -> 8 [] c = "9" -> 9

\* int(s) for a string of decimal digits
RECURSIVE ParseInt(_)
ParseInt(digits) ==
    IF digits = <<>> THEN 0
    ELSE 10 * ParseInt(SubSeq(digits, 1, Len(digits) - 1))
         + DigitValue(digits[Len(digits)])

\* the key= lambda of sorted(): every digit of the whole file name
SortKey(filename) ==
    IF \E i \in DOMAIN filename : IsDigit(filename[i])
        THEN ParseInt(SelectSeq(filename, IsDigit))
        ELSE SentinelKey

\* sorted(..., key=SortKey) is stable: equal keys keep their input order.
InsertByKey(sorted, x) ==
    LET n == Cardinality({ i \in DOMAIN sorted : SortKey(sorted[i]) <= SortKey(x) })
    IN  SubSeq(sorted, 1, n) \o <<x>> \o SubSeq(sorted, n + 1, Len(sorted))

RECURSIVE SortedFiles(_)
SortedFiles(files) ==
    IF files = <<>> THEN <<>>
    ELSE InsertByKey(SortedFiles(SubSeq(files, 1, Len(files) - 1)), files[Len(files)])

MidPoint(total_files) == (total_files + 1) \div 2

\* os.path.splitext(filename)[0]
Splitext(filename) ==
    LET dots == { i \in DOMAIN filename : filename[i] = "." /\ i > 1 }
    IN  IF dots = {} THEN filename ELSE SubSeq(filename, 1, Maximum(dots) - 1)

DisplayLabel(filename) ==
    LET button_label == Splitext(filename)
    IN  IF Len(button_label) > MaxLabelLen
            THEN SubSeq(button_label, 1, TruncatedLen) \o <<".", ".", ".">>
            ELSE button_label

Button(filename) == [key |-> filename, label |-> DisplayLabel(filename)]

LeftColumn(files) ==
    LET sorted_files == SortedFiles(files)
    IN  [i \in 1..MidPoint(Len(sorted_files)) |-> Button(sorted_files[i])]

RightColumn(files) ==
    LET sorted_files == SortedFiles(files)
        mid_point == MidPoint(Len(sorted_files))
    IN  [i \in 1..(Len(sorted_files) - mid_point) |-> Button(sorted_files[mid_point + i])]

\* body of `if st.button(...)`: the placeholder is emptied, and the clip is
\* played only when it is not the one recorded in current_audio.
PlayClicked(current, filename) ==
    IF current # filename
        THEN [current_audio |-> filename, played |-> filename]
        ELSE [current_audio |-> current, played |-> None]

\* --------------------------------------------------------------- call log
\* datetime.now(pst): the wall clock of America/Los_Angeles at an instant
WallClock(instant) == IF instant < DstEnd THEN instant ELSE instant - DstShift

\* .strftime("%Y-%m-%d %H:%M:%S"): a wall-clock reading without zone or offset
Strftime(instant) ==
    LET wall == WallClock(instant)
    IN  [hour |-> wall \div 3600, minute |-> (wall % 3600) \div 60, second |-> wall % 60]

\* variant: the new record overwrites the last one instead of being appended
LogCallReplacing(log, business_name, notes, result, reason, now) ==
    SubSeq(log, 1, Len(log) - 1)
        \o << [timestamp |-> Strftime(now), business |-> business_name,
               notes |-> notes, result |-> result, reason |-> reason] >>

log_call(log, business_name, notes, result, reason, now) ==
    Append(log, [timestamp |-> Strftime(now), business |-> business_name,
                 notes |-> notes, result |-> result, reason |-> reason])

\* ------------------------------------------------------------- statistics
LogColumns == <<"timestamp", "business", "notes", "result", "reason">>

\* pd.DataFrame(list of dicts): a fresh frame, one row per dict; a frame built
\* from an empty list has no columns.
DataFrame(log) ==
    [columns |-> IF log = <<>> THEN <<>> ELSE LogColumns, rows |-> log]

\* pd.to_datetime(string): the naive wall-clock second of the day
ToDatetime(timestamp) ==
    timestamp.hour * 3600 + timestamp.minute * 60 + timestamp.second

\* .dt.tz_localize(pst) with pandas' default ambiguous='raise': a wall-clock
\* reading inside the repeated hour names two instants and is refused.
IsAmbiguous(naive) == DstEnd - DstShift <= naive /\ naive < DstEnd

TzLocalize(naive) == IF naive < DstEnd THEN naive ELSE naive + DstShift

\* df['datetime'] = ...: the column is added to the frame it was given
WithDatetimeColumn(d) ==
    [columns |-> d.columns \o <<"datetime">>,
     rows |-> [i \in DOMAIN d.rows |->
                  [c \in DOMAIN d.rows[i] \cup {"datetime"} |->
                      IF c = "datetime"
                          THEN TzLocalize(ToDatetime(d.rows[i].timestamp))
                          ELSE d.rows[i][c]]]]

Datetimes(d) == [i \in DOMAIN d.rows |-> d.rows[i].datetime]

\* variant: last record minus first record, by position
TimeDiffPositional(datetimes) == datetimes[Len(datetimes)] - datetimes[1]

\* df['datetime'].max() - df['datetime'].min(), in seconds
TimeDiff(datetimes) == Maximum(Range(datetimes)) - Minimum(Range(datetimes))

\* variant: the zero-duration fallback yields 0 instead of total_calls
CallsPerHourZeroFallback(total_calls, seconds) ==
    IF seconds > 0
        THEN [num |-> total_calls * 3600, den |-> seconds]
        ELSE [num |-> 0, den |-> 1]

\* total_calls / total_hours if total_hours > 0 else total_calls
CallsPerHour(total_calls, seconds) ==
    IF seconds > 0
        THEN [num |-> total_calls * 3600, den |-> seconds]
        ELSE [num |-> total_calls, den |-> 1]

RECURSIVE CountEqual(_, _, _)
CountEqual(rows, column, value) ==
    IF rows = <<>> THEN 0
    ELSE (IF Head(rows)[column] = value THEN 1 ELSE 0)
         + CountEqual(Tail(rows), column, value)

\* (df[column] == value).mean() * 100
PctOf(rows, column, value) ==
    [num |-> CountEqual(rows, column, value) * 100, den |-> Len(rows)]

\* variant: a count for every reason the form offers, occurring or not
ValueCountsAllOptions(rows, column) ==
    [v \in ReasonOptions |-> CountEqual(rows, column, v)]

\* df[column].value_counts(): one count per value that occurs
ValueCounts(rows, column) ==
    [v \in { rows[i][column] : i \in DOMAIN rows } |-> CountEqual(rows, column, v)]

ReasonPcts(rows) ==
    LET reason_counts == ValueCounts(rows, "reason")
    IN  [reason \in DOMAIN reason_counts |->
            [num |-> reason_counts[reason] * 100, den |-> Len(rows)]]

\* .strftime('%I:%M %p PST') of a zone-aware datetime
FormatClock(instant) ==
    LET wall == WallClock(instant)
        hour == (wall \div 3600) % 24
    IN  [hour12 |-> IF hour % 12 = 0 THEN 12 ELSE hour % 12,
         minute |-> (wall % 3600) \div 60,
         meridiem |-> IF hour < 12 THEN "AM" ELSE "PM",
         zone |-> "PST"]

\* lines 156-188, on a frame that carries the datetime column
StatsOf(d) ==
    LET total_calls == Len(d.rows)
        datetimes == Datetimes(d)
        seconds == TimeDiff(datetimes)
    IN  [total_calls |-> total_calls,
         interested_pct |-> PctOf(d.rows, "result", "Interested"),
         rejected_pct |-> PctOf(d.rows, "result", "Rejected"),
         reason_pcts |-> ReasonPcts(d.rows),
         duration_hours |-> seconds \div 3600,
         duration_minutes |-> (seconds % 3600) \div 60,
         calls_per_hour |-> CallsPerHour(total_calls, seconds),
         start_time |-> FormatClock(Minimum(Range(datetimes))),
         end_time |-> FormatClock(Maximum(Range(datetimes)))]

\* lines 153-188: what the call does to the frame, what it returns, and the
\* exception it ends with
\* (the singleton-set binding evaluates the frame once)
ComputeStatistics(d) ==
    IF \E i \in DOMAIN d.rows : IsAmbiguous(ToDatetime(d.rows[i].timestamp))
        THEN [df |-> d, stats |-> None, raised |-> Some("AmbiguousTimeError")]
        ELSE CHOOSE call \in
                 { [df |-> frame, stats |-> Some(StatsOf(frame)), raised |-> None] :
                   frame \in {WithDatetimeColumn(d)} } : TRUE

\* variant: no early return; an empty frame has no 'timestamp' column
calculate_statistics_unguarded(d) ==
    IF Len(d.rows) = 0
        THEN [df |-> d, stats |-> None, raised |-> Some("KeyError")]
        ELSE ComputeStatistics(d)

calculate_statistics(d) ==
    IF Len(d.rows) = 0
        THEN [df |-> d, stats |-> None, raised |-> None]
        ELSE ComputeStatistics(d)

\* f"{x:.1f}": tenths of the fraction, ties to the even tenth
Format1f(x) ==
    LET q == (x.num * 10) \div x.den
        r == (x.num * 10) % x.den
    IN  IF 2 * r > x.den \/ (2 * r = x.den /\ q % 2 = 1) THEN q + 1 ELSE q

create_report_text(s, date) ==
    [title |-> date,
     duration |-> <<s.duration_hours, s.duration_minutes>>,
     start_time |-> s.start_time,
     end_time |-> s.end_time,
     calls_per_hour |-> Format1f(s.calls_per_hour),
     total_calls |-> s.total_calls,
     interested |-> Format1f(s.interested_pct),
     rejected |-> Format1f(s.rejected_pct),
     reasons |-> [reason \in DOMAIN s.reason_pcts |-> Format1f(s.reason_pcts[reason])]]

\* df.to_csv(index=False): the frame's own column names, then one line per row
ToCsv(d) ==
    [header |-> d.columns,
     rows |-> [i \in DOMAIN d.rows |->
                  [j \in DOMAIN d.columns |-> d.rows[i][d.columns[j]]]]]

\* lines 326-388: the frame is shown, then handed to calculate_statistics;
\* the statistics and both download buttons are drawn only for a summary.
Exports(frame, summary) ==
    IF summary # None
        THEN [csv_data |-> Some([file_name |-> <<"call_log_", CurrentDate, ".csv">>,
                                 data |-> ToCsv(frame)]),
              report_text |-> Some([file_name |-> <<"call_report_", CurrentDate, ".txt">>,
                                    data |-> create_report_text(summary[1], CurrentDate)])]
        ELSE [csv_data |-> None, report_text |-> None]

\* (the singleton-set binding evaluates the call once)
Display(log) ==
    IF log = <<>>
        THEN [shown_df |-> None, df |-> None, stats |-> None, raised |-> None,
              csv_data |-> None, report_text |-> None]
        ELSE LET shown == DataFrame(log)
             IN  CHOOSE page \in
                     { [shown_df |-> Some(shown), df |-> Some(call.df),
                        stats |-> call.stats, raised |-> call.raised,
                        csv_data |-> Exports(call.df, call.stats).csv_data,
                        report_text |-> Exports(call.df, call.stats).report_text] :
                       call \in {calculate_statistics(shown)} } : TRUE

\* ------------------------------------------------------------ script run
NoForm == None

FormInput(business_name, notes, result, reason, now) ==
    Some([business |-> business_name, notes |-> notes, result |-> result,
          reason |-> reason, now |-> now])

\* lines 233-234: the uploader's current value is saved on every run
FilesAfter(uploads) ==
    IF uploads # <<>> THEN save_uploaded_files(audio_files, uploads) ELSE audio_files

\* lines 238-295: the button grid, and the one button that was clicked
AudioAfter(files, clicked) ==
    IF files # <<>> /\ clicked # None
        THEN PlayClicked(current_audio, clicked)
        ELSE [current_audio |-> current_audio, played |-> None]

\* lines 322-324: `if submitted and business_name`
LogAfter(form) ==
    IF form # NoForm /\ form[1].business # ""
        THEN log_call(call_log, form[1].business, form[1].notes,
                      form[1].result, form[1].reason, form[1].now)
        ELSE call_log

\* One run of the script, lines 216-392, for the widget values of this run.
ScriptRun(uploads, clicked, form) ==
    \E files \in {FilesAfter(uploads)}, log \in {LogAfter(form)} :
        \E audio \in {AudioAfter(files, clicked)}, page \in {Display(log)} :
            /\ uploaded_files' = uploads
            /\ audio_files' = files
            /\ left_buttons' = LeftColumn(files)
            /\ right_buttons' = RightColumn(files)
            /\ current_audio' = audio.current_audio
            /\ played' = audio.played
            /\ call_log' = log
            /\ shown_df' = page.shown_df
            /\ df' = page.df
            /\ stats' = page.stats
            /\ raised' = page.raised
            /\ csv_data' = page.csv_data
            /\ report_text' = page.report_text
            /\ UNCHANGED audio_states

Event(kind, file, business) == [kind |-> kind, file |-> file, business |-> business]

ButtonKeys == { left_buttons[i].key : i \in DOMAIN left_buttons }
                  \cup { right_buttons[i].key : i \in DOMAIN right_buttons }

\* lines 16-24, then the first run of the script on the empty session
Init ==
    /\ audio_files = <<>>
    /\ call_log = <<>>
    /\ current_audio = None
    /\ audio_states = <<>>
    /\ uploaded_files = <<>>
    /\ event = Event("start", None, "")
    /\ left_buttons = <<>>
    /\ right_buttons = <<>>
    /\ played = None
    /\ shown_df = None
    /\ df = None
    /\ stats = None
    /\ raised = None
    /\ csv_data = None
    /\ report_text = None
    /\ downloaded = None

\* the operator drops one more file on the uploader
UploadFile(f) ==
    /\ Len(uploaded_files) < MaxFiles
    /\ f \notin Range(uploaded_files)
    /\ event' = Event("upload", f.name, "")
    /\ downloaded' = None
    /\ ScriptRun(Append(uploaded_files, f), None, NoForm)

\* the operator clicks the play button of a clip
ClickPlay(filename) ==
    /\ filename \in ButtonKeys
    /\ event' = Event("play", filename, "")
    /\ downloaded' = None
    /\ ScriptRun(uploaded_files, filename, NoForm)

\* the operator presses "Log Call"
SubmitForm(business_name, notes, result, reason, now) ==
    /\ business_name # "" => Len(call_log) < MaxCalls
    /\ event' = Event("submit", None, business_name)
    /\ downloaded' = None
    /\ ScriptRun(uploaded_files, None, FormInput(business_name, notes, result, reason, now))

\* the operator clicks "Download Call Log (CSV)"
ClickDownloadCsv ==
    /\ csv_data # None
    /\ event' = Event("download_csv", None, "")
    /\ downloaded' = csv_data
    /\ ScriptRun(uploaded_files, None, NoForm)

\* the operator clicks "Download Report (TXT)"
ClickDownloadReport ==
    /\ report_text # None
    /\ event' = Event("download_txt", None, "")
    /\ downloaded' = report_text
    /\ ScriptRun(uploaded_files, None, NoForm)

Upload == \E f \in Files : UploadFile(f)

Play == \E filename \in FileNames : ClickPlay(filename)

Submit ==
    \E business_name \in BusinessNames, notes \in NotesTexts,
       result \in ResultOptions, reason \in ReasonOptions, now \in Instants :
        SubmitForm(business_name, notes, result, reason, now)

SessionUpload == \E f \in SessionFiles : UploadFile(f)

SessionSubmit ==
    \E business_name \in BusinessNames, notes \in NotesTexts,
       result \in ResultOptions, reason \in SessionReasons, now \in SessionInstants :
        SubmitForm(business_name, notes, result, reason, now)

\* a whole session: audio and logging interleaved
Next == SessionUpload \/ Play \/ SessionSubmit \/ ClickDownloadCsv \/ ClickDownloadReport

Spec == Init /\ [][Next]_vars

\* a logging session over every form input
NextLog == Submit \/ ClickDownloadCsv \/ ClickDownloadReport

SpecLog == Init /\ [][NextLog]_vars

\* an audio session over every file
NextAudio == Upload \/ Play

SpecAudio == Init /\ [][NextAudio]_vars

\* ================================================================ claims
RowsWhere(column, value) == { i \in DOMAIN call_log : call_log[i][column] = value }

\* the instant a logged wall-clock reading is taken to mean
InstantOf(i) == TzLocalize(ToDatetime(call_log[i].timestamp))

LoggedInstants == { InstantOf(i) : i \in DOMAIN call_log }

Elapsed == Maximum(LoggedInstants) - Minimum(LoggedInstants)

RECURSIVE SumOfNums(_, _)
SumOfNums(pcts, keys) ==
    IF keys = {} THEN 0
    ELSE LET k == CHOOSE x \in keys : TRUE
         IN  pcts[k].num + SumOfNums(pcts, keys \ {k})

\* C1: the call log is append-only.  In every step of a session the log
\* changes only when the form was submitted with a non-empty business name,
\* and then exactly one record, carrying the submitted name, is added at the
\* end while every earlier record keeps its position and its fields; a
\* submission with an empty business name leaves the log as it was.
C1_AppendOnly ==
    [][ /\ call_log' # call_log =>
              /\ event'.kind = "submit"
              /\ event'.business # ""
              /\ Len(call_log') = Len(call_log) + 1
              /\ SubSeq(call_log', 1, Len(call_log)) = call_log
              /\ call_log'[Len(call_log')].business = event'.business
        /\ event'.kind = "submit" /\ event'.business = "" => call_log' = call_log
        /\ event'.kind = "submit" /\ event'.business # "" => call_log' # call_log
      ]_vars

\* a second call has just been logged in a session that also holds clips
C1_Witness ==
    /\ event.kind = "submit"
    /\ event.business # ""
    /\ Len(call_log) >= 2
    /\ audio_files # <<>>

\* C2, as claimed: the CSV offered for download has one data row per call
\* record, in log order, and its header is exactly the five configured
\* columns Time, Business, Result, Reason, Notes (a header cell is read
\* through the column configuration), with no additional column.
C2_CsvMatchesLog ==
    csv_data # None =>
        LET csv == csv_data[1].data
            label(c) == IF c \in DOMAIN ColumnConfig THEN ColumnConfig[c] ELSE c
        IN  /\ Len(csv.rows) = Len(call_log)
            /\ \A i \in DOMAIN call_log :
                   \E j \in DOMAIN csv.header :
                       /\ csv.header[j] = "business"
                       /\ csv.rows[i][j] = call_log[i].business
            /\ Len(csv.header) = 5
            /\ { label(csv.header[j]) : j \in DOMAIN csv.header }
                   = {"Time", "Business", "Result", "Reason", "Notes"}

\* C3, as claimed: calculate_statistics leaves the snapshot it is given
\* unchanged, same records and same fields per record, so the frame read
\* after the call equals the frame that was shown before it.
C3_SnapshotUnchanged == df # None => df = shown_df

\* C4: calculate_statistics returns None for an empty snapshot and raises
\* nothing, and in every reachable state the statistics, the text report and
\* both export buttons exist only together with a summary of a non-empty log.
C4_EmptyLogNeverRendered ==
    /\ calculate_statistics(DataFrame(<<>>))
           = [df |-> DataFrame(<<>>), stats |-> None, raised |-> None]
    /\ stats # None => call_log # <<>> /\ stats[1].total_calls > 0
    /\ csv_data # None => stats # None /\ Len(csv_data[1].data.rows) > 0
    /\ report_text # None => stats # None /\ report_text[1].data.total_calls > 0
    /\ call_log = <<>> =>
           stats = None /\ raised = None /\ csv_data = None /\ report_text = None

\* a summary was rendered and one of its exports was downloaded
C4_Witness ==
    /\ stats # None
    /\ csv_data # None
    /\ report_text # None
    /\ downloaded # None

\* C5: whenever a summary is computed, the Interested and the Rejected
\* records together are all the records, interested_pct and rejected_pct are
\* their shares of total_calls and sum to 100, and reason_pcts has exactly one
\* entry per reason that occurs in the log, each the share of that reason, the
\* entries summing to 100.
C5_BreakdownsSumToTotal ==
    stats # None =>
        LET s == stats[1]
            n == Len(call_log)
        IN  /\ s.total_calls = n
            /\ Cardinality(RowsWhere("result", "Interested"))
                   + Cardinality(RowsWhere("result", "Rejected")) = n
            /\ s.interested_pct.den = n /\ s.rejected_pct.den = n
            /\ s.interested_pct.num = 100 * Cardinality(RowsWhere("result", "Interested"))
            /\ s.rejected_pct.num = 100 * Cardinality(RowsWhere("result", "Rejected"))
            /\ s.interested_pct.num + s.rejected_pct.num = 100 * n
            /\ DOMAIN s.reason_pcts = { call_log[i].reason : i \in DOMAIN call_log }
            /\ \A r \in DOMAIN s.reason_pcts :
                   /\ s.reason_pcts[r].den = n
                   /\ s.reason_pcts[r].num = 100 * Cardinality(RowsWhere("reason", r))
            /\ SumOfNums(s.reason_pcts, DOMAIN s.reason_pcts) = 100 * n

\* a summary over two calls with different results and different reasons
C5_Witness ==
    /\ stats # None
    /\ Len(call_log) = 2
    /\ call_log[1].result # call_log[2].result
    /\ call_log[1].reason # call_log[2].reason

\* C6: whenever a summary is computed, calls_per_hour times the elapsed
\* seconds between the earliest and the latest timestamp equals total_calls
\* times 3600 when time has elapsed, calls_per_hour is total_calls itself when
\* all timestamps are the same instant, and the divisor is never zero.
C6_CallsPerHour ==
    stats # None =>
        LET cph == stats[1].calls_per_hour
            n == Len(call_log)
        IN  /\ cph.den > 0
            /\ Elapsed > 0 => cph.num * Elapsed = n * 3600 * cph.den
            /\ Elapsed = 0 => cph.num = n * cph.den

\* a summary over two calls logged at different instants
C6_Witness ==
    /\ stats # None
    /\ Len(call_log) = 2
    /\ Elapsed > 0

\* C7: whenever a summary is computed, with D the seconds between the
\* smallest and the largest timestamp in whatever order they were logged,
\* duration_hours is the whole hours of D and duration_minutes the whole
\* minutes of the remainder, and start_time and end_time are the clock
\* readings of a record with the smallest and of one with the largest
\* timestamp.
C7_DurationFromExtrema ==
    stats # None =>
        LET s == stats[1]
            D == Elapsed
            clock(i) ==
                [hour12 |-> IF call_log[i].timestamp.hour % 12 = 0
                                THEN 12 ELSE call_log[i].timestamp.hour % 12,
                 minute |-> call_log[i].timestamp.minute,
                 meridiem |-> IF call_log[i].timestamp.hour < 12 THEN "AM" ELSE "PM",
                 zone |-> "PST"]
        IN  /\ 0 <= s.duration_minutes /\ s.duration_minutes < 60
            /\ s.duration_hours >= 0
            /\ s.duration_hours * 3600 + s.duration_minutes * 60 <= D
            /\ D < s.duration_hours * 3600 + s.duration_minutes * 60 + 60
            /\ \E i \in DOMAIN call_log :
                   InstantOf(i) = Minimum(LoggedInstants) /\ s.start_time = clock(i)
            /\ \E i \in DOMAIN call_log :
                   InstantOf(i) = Maximum(LoggedInstants) /\ s.end_time = clock(i)

\* a summary over a log whose first record is later than its last
C7_Witness ==
    /\ stats # None
    /\ Len(call_log) >= 2
    /\ InstantOf(1) > InstantOf(Len(call_log))
    /\ stats[1].duration_hours > 0
    /\ stats[1].duration_minutes > 0

\* C8, as claimed: every click on the button of a registered clip plays that
\* clip, also a click on the clip clicked just before.
C8_EveryClickPlays == event.kind = "play" => played = event.file

\* futures of the session: the calls that may still be logged
FutureCalls == 2

FormRecords ==
    { [timestamp |-> Strftime(now), business |-> business_name, notes |-> notes,
       result |-> result, reason |-> reason] :
      now \in Instants, business_name \in BusinessNames \ {""}, notes \in NotesTexts,
      result \in ResultOptions, reason \in ReasonOptions }

Futures == UNION { [1..k -> FormRecords] : k \in 0..FutureCalls }

\* C9, as claimed: the session is never in a state from which every later
\* statistics computation fails; some way of carrying on (retrying as is, or
\* logging further calls) leads to a computation that does not raise.
C9_FailureIsRecoverable ==
    \E future \in Futures :
        calculate_statistics(DataFrame(call_log \o future)).raised = None

\* the number in a clip's name, the extension set aside
ClaimedKey(filename) ==
    LET stem == Splitext(filename)
    IN  IF \E i \in DOMAIN stem : IsDigit(stem[i])
            THEN ParseInt(SelectSeq(stem, IsDigit))
            ELSE SentinelKey

\* C10, as claimed: the buttons, left column then right column, are in
\* ascending order of the number in the clip's name, a name without a digit
\* apart from the .mp3 extension counting as 999; the left column holds the
\* first ceil(n/2) of them and every registered clip has exactly one button.
C10_NumericOrderWithSentinel ==
    LET buttons == left_buttons \o right_buttons
    IN  /\ \A i, j \in DOMAIN buttons :
               i < j => ClaimedKey(buttons[i].key) <= ClaimedKey(buttons[j].key)
        /\ Len(left_buttons) = (Len(audio_files) + 1) \div 2
        /\ Len(buttons) = Len(audio_files)
        /\ { buttons[i].key : i \in DOMAIN buttons } = Range(audio_files)

====
